---- MODULE Spec2Model ----
(***************************************************************************)
(* A model of the weather dashboard: the observable AppState with its      *)
(* storage adapter, the App controller and the LocationSearch component.   *)
(***************************************************************************)
EXTENDS Integers, Sequences, FiniteSets, TLC

VARIABLES
  state,        \* AppState's fields: currentLocation, weatherData, isLoading, error, temperatureUnit
  storage,      \* localStorage: key -> stored text, defined on the keys that are present
  available,    \* whether the browser lets the page use localStorage at all
  hist,         \* the last AppState call made from outside, with what it found
  subscribers,  \* AppState.subscribers: the entry list of the JS Set, deleted entries left empty
  stack,        \* the JS call stack below the outside caller: notify passes and running callbacks
  tokens,       \* per callback: the unsubscribe functions it holds, not yet called ("fresh") or called ("spent")
  unsub,        \* callbacks removed by an unsubscribe function and not subscribed again since
  call,         \* the outermost AppState method call: in progress, or the one that returned last
  app,          \* the App controller: fetches in flight, the two panels, the last event it handled
  search,       \* the LocationSearch component: input box, pending timers, dropdown, calls made
  svc           \* a WeatherService call: the operation, its query, what the transport did, the result

notifyVars == <<subscribers, stack, tokens, unsub, call>>
uiVars == <<app, search, svc>>
vars == <<state, storage, available, hist, subscribers, stack, tokens, unsub, call, app, search, svc>>

(***************************************************************************)
(* Bounds of the model.                                                    *)
(***************************************************************************)
MaxReentrant == 1   \* AppState calls made by callbacks during one outermost call

(***************************************************************************)
(* JavaScript values, as far as the program handles them.                  *)
(***************************************************************************)
Null == [t |-> "null"]
Undefined == [t |-> "undefined"]
Str(s) == [t |-> "str", s |-> s]
Num(n) == [t |-> "num", n |-> n]      \* n is the number's canonical decimal text
Obj(f) == [t |-> "obj", f |-> f]      \* f is the sequence of <<key, value>> in property order
Bool(b) == [t |-> "bool", b |-> b]

\* ToBoolean, as `a && b` and `if (a)` apply it.
Truthy(v) ==
  CASE v.t = "str" -> v.s # ""
    [] v.t = "num" -> v.n # "0"
    [] v.t = "obj" -> TRUE
    [] v.t = "bool" -> v.b
    [] OTHER -> FALSE

\* v.k for a non-null v: the property's value, undefined when v has none.
Prop(v, k) ==
  IF v.t = "obj" /\ \E i \in 1..Len(v.f) : v.f[i][1] = k
  THEN v.f[CHOOSE i \in 1..Len(v.f) : v.f[i][1] = k][2]
  ELSE Undefined

LocationSuggestion(name, country, region, lat, lon) ==
  Obj(<< <<"name", Str(name)>>, <<"country", Str(country)>>, <<"region", Str(region)>>,
         <<"lat", Num(lat)>>, <<"lon", Num(lon)>> >>)

Paris == LocationSuggestion("Paris", "France", "Ile-de-France", "48.8566", "2.3522")
London == LocationSuggestion("London", "United Kingdom", "City of London", "51.52", "-0.11")
Locations == {Paris, London}

(***************************************************************************)
(* JSON text is a sequence of tokens; "ws" is insignificant whitespace.    *)
(***************************************************************************)
Tok(k, s) == [k |-> k, s |-> s]
Ws == Tok("ws", " ")

RECURSIVE JSONstringify(_)
RECURSIVE Members(_, _)
Members(f, i) ==
  IF i > Len(f) THEN << >>
  ELSE (IF i > 1 THEN <<Tok("p", ",")>> ELSE << >>)
       \o <<Tok("str", f[i][1]), Tok("p", ":")>> \o JSONstringify(f[i][2]) \o Members(f, i + 1)
JSONstringify(v) ==
  CASE v.t = "str" -> <<Tok("str", v.s)>>
    [] v.t = "num" -> <<Tok("num", v.n)>>
    [] v.t = "null" -> <<Tok("word", "null")>>
    [] v.t = "obj" -> <<Tok("p", "{")>> \o Members(v.f, 1) \o <<Tok("p", "}")>>

\* The JSON values the stored texts of the model can denote.
JsonValues ==
  Locations
  \cup { Null, Num("5"), Str("Paris"), Str("C"), Str("F"), Str("K"), Str("") }
  \cup { Obj(<< <<"name", Str("")>>, <<"country", Str("X")>> >>),
         Obj(<< <<"name", Str("Paris")>>, <<"country", Str("")>> >>),
         Obj(<< <<"name", Str("Paris")>> >>),
         Obj(<< <<"country", Str("France")>>, <<"name", Str("Paris")>> >>),
         Obj(<< >>) }

JsonTexts == { <<v, JSONstringify(v)>> : v \in JsonValues }
StripWs(text) == SelectSeq(text, LAMBDA tk : tk.k # "ws")
Parses(text) == \E p \in JsonTexts : p[2] = StripWs(text)
\* JSON.parse of a text that parses; it throws on every other text.
JSONparse(text) == (CHOOSE p \in JsonTexts : p[2] = StripWs(text))[1]

(***************************************************************************)
(* The storage adapter.                                                    *)
(***************************************************************************)
STORAGE_PREFIX == "weather-app:"
STORAGE_KEY_LOCATION == "lastLocation"
STORAGE_KEY_UNIT == "temperatureUnit"

\* An exception on its way up instead of a value.
Thrown == [t |-> "thrown"]

\* The try block of getStorageItem. getOk = FALSE: localStorage.getItem throws
\* (the store is unavailable); JSON.parse throws on a text that does not parse.
ReadItem(store, key, getOk) ==
  IF ~getOk THEN Thrown
  ELSE IF (STORAGE_PREFIX \o key) \notin DOMAIN store THEN Null
  ELSE IF Parses(store[STORAGE_PREFIX \o key]) THEN JSONparse(store[STORAGE_PREFIX \o key])
  ELSE Thrown

\* try { ... } catch { return null }
getStorageItem(store, key, getOk) ==
  IF ReadItem(store, key, getOk) = Thrown THEN Null ELSE ReadItem(store, key, getOk)

\* setOk = FALSE: localStorage.setItem throws (quota exceeded, store disabled).
setStorageItem(store, key, value, setOk) ==
  IF setOk
  THEN [k \in DOMAIN store \cup {STORAGE_PREFIX \o key} |->
          IF k = STORAGE_PREFIX \o key THEN JSONstringify(value) ELSE store[k]]
  ELSE store

(***************************************************************************)
(* AppState: the field updates of its methods, before they notify.         *)
(***************************************************************************)
NewAppState ==
  [currentLocation |-> Null, weatherData |-> Null, isLoading |-> FALSE,
   error |-> Null, temperatureUnit |-> Str("C")]

setLocation(s, location) == [s EXCEPT !.currentLocation = location, !.error = Null]

setWeatherData(s, data) == [s EXCEPT !.weatherData = data, !.error = Null]

\* Mutant: setLoading forgets to clear the error.
setLoadingKeepsError(s, loading) == [s EXCEPT !.isLoading = loading]

setLoading(s, loading) ==
  [s EXCEPT !.isLoading = loading, !.error = IF loading THEN Null ELSE @]

setError(s, error) == [s EXCEPT !.error = error, !.isLoading = FALSE]

setTemperatureUnit(s, unit) == [s EXCEPT !.temperatureUnit = unit]

\* Mutant: the unit written is the default, not the current one.
saveToStorageDefaultUnit(s, store, ok1, ok2) ==
  LET st1 == IF Truthy(s.currentLocation)
             THEN setStorageItem(store, STORAGE_KEY_LOCATION, s.currentLocation, ok1)
             ELSE store
  IN setStorageItem(st1, STORAGE_KEY_UNIT, Str("C"), ok2)

saveToStorage(s, store, ok1, ok2) ==
  LET st1 == IF Truthy(s.currentLocation)
             THEN setStorageItem(store, STORAGE_KEY_LOCATION, s.currentLocation, ok1)
             ELSE store
  IN setStorageItem(st1, STORAGE_KEY_UNIT, s.temperatureUnit, ok2)

\* Mutant: the restore checks the country only.
loadFromStorageNoNameCheck(s, store, ok1, ok2) ==
  LET savedLocation == getStorageItem(store, STORAGE_KEY_LOCATION, ok1)
      s1 == IF Truthy(savedLocation) /\ Truthy(Prop(savedLocation, "country"))
            THEN [s EXCEPT !.currentLocation = savedLocation]
            ELSE s
      savedUnit == getStorageItem(store, STORAGE_KEY_UNIT, ok2)
  IN IF savedUnit = Str("C") \/ savedUnit = Str("F")
     THEN [s1 EXCEPT !.temperatureUnit = savedUnit]
     ELSE s1

\* The fields after loadFromStorage's two restores. An exception leaving
\* getStorageItem would end the method at that read.
loadFromStorage(s, store, ok1, ok2) ==
  LET savedLocation == getStorageItem(store, STORAGE_KEY_LOCATION, ok1)
      s1 == IF Truthy(savedLocation) /\ Truthy(Prop(savedLocation, "name"))
               /\ Truthy(Prop(savedLocation, "country"))
            THEN [s EXCEPT !.currentLocation = savedLocation]
            ELSE s
      savedUnit == getStorageItem(store, STORAGE_KEY_UNIT, ok2)
  IN IF savedLocation = Thrown THEN s
     ELSE IF savedUnit = Str("C") \/ savedUnit = Str("F")
     THEN [s1 EXCEPT !.temperatureUnit = savedUnit]
     ELSE s1

\* Whether an exception leaves loadFromStorage before it notifies.
loadFromStorageThrows(store, ok1, ok2) ==
  \/ getStorageItem(store, STORAGE_KEY_LOCATION, ok1) = Thrown
  \/ getStorageItem(store, STORAGE_KEY_UNIT, ok2) = Thrown

(***************************************************************************)
(* Stored texts the application may find at startup.                       *)
(***************************************************************************)
RECURSIVE Pretty(_)
\* The same JSON text written with a space after every colon.
Pretty(text) ==
  IF text = << >> THEN << >>
  ELSE IF Head(text) = Tok("p", ":") THEN <<Head(text), Ws>> \o Pretty(Tail(text))
  ELSE <<Head(text)>> \o Pretty(Tail(text))

LocationTexts ==
  { JSONstringify(Paris),
    Pretty(JSONstringify(London)),
    JSONstringify(Obj(<< <<"name", Str("")>>, <<"country", Str("X")>> >>)),
    JSONstringify(Obj(<< <<"name", Str("Paris")>>, <<"country", Str("")>> >>)),
    JSONstringify(Obj(<< <<"name", Str("Paris")>> >>)),
    JSONstringify(Obj(<< <<"country", Str("France")>>, <<"name", Str("Paris")>> >>)),
    JSONstringify(Null),
    JSONstringify(Str("Paris")),
    <<Tok("p", "{"), Tok("str", "name")>> }

UnitTexts ==
  { JSONstringify(Str("C")),
    JSONstringify(Str("F")),
    <<Ws, Tok("str", "F")>>,
    JSONstringify(Str("K")),
    JSONstringify(Num("5")),
    <<Tok("word", "F")>> }

Stores(locTexts, unitTexts) ==
  LET L == STORAGE_PREFIX \o STORAGE_KEY_LOCATION
      U == STORAGE_PREFIX \o STORAGE_KEY_UNIT
  IN  { [k \in {} |-> << >>] }
      \cup { [k \in {L} |-> x] : x \in locTexts }
      \cup { [k \in {U} |-> y] : y \in unitTexts }
      \cup { [k \in {L, U} |-> IF k = L THEN p[1] ELSE p[2]] : p \in locTexts \X unitTexts }

LocationKey == STORAGE_PREFIX \o STORAGE_KEY_LOCATION
UnitKey == STORAGE_PREFIX \o STORAGE_KEY_UNIT

WeatherDatas == { [t |-> "data", city |-> "Paris"], [t |-> "data", city |-> "London"] }
ErrorMessages == { Str("Network error") }
Units == { Str("C"), Str("F") }

(***************************************************************************)
(* The two panels. A panel's content is what its container shows: nothing  *)
(* yet, the loading skeleton, an error message, or rendered data in a unit.*)
(***************************************************************************)
Blank == [kind |-> "blank"]
Skeleton == [kind |-> "loading"]
ErrorView(message) == [kind |-> "error", message |-> message]
DataView(data, unit) == [kind |-> "data", data |-> data, unit |-> unit]

NoEvent == [ev |-> "none"]

\* The controller after construction, before init().
NoApp ==
  [started |-> FALSE,        \* init() has run up to its first await
   fetches |-> << >>,        \* getForecast calls awaited: number -> the load that awaits it
   issued |-> 0,             \* getForecast calls made so far
   current |-> Blank,        \* the container of CurrentWeather
   forecast |-> Blank,       \* the container of WeatherForecast
   cwUnit |-> Str("C"),      \* CurrentWeather.unit
   cwData |-> Null,          \* CurrentWeather.currentData
   loaded |-> {},            \* the cities a getForecast call has resolved for
   last |-> NoEvent]         \* the event handled last, with what it found

\* The weather client with no call made.
NoService == [phase |-> "idle"]

\* The search component after construction and render(). A text is a
\* sequence of pieces whose concatenation is the JS string: what the user
\* types is one character per piece, so that trim() and length act on it.
NoSearch ==
  [geolocation |-> TRUE,     \* navigator.geolocation exists
   destroyed |-> FALSE,      \* destroy() has run
   value |-> << >>,          \* inputEl.value
   disabled |-> FALSE,       \* inputEl.disabled
   debounceTimer |-> 0,      \* the timer id held, 0 for null
   timeouts |-> {},          \* setTimeout callbacks not yet run nor cleared
   timersSet |-> 0,          \* setTimeout calls so far: the last timer id
   suggestions |-> << >>,
   isLoading |-> FALSE,
   shown |-> FALSE,          \* the dropdown lacks the --hidden class
   dropdown |-> Blank,       \* dropdownEl's content
   lookups |-> {},           \* weatherService.searchLocations calls awaited
   locating |-> 0,           \* getCurrentPosition requests awaited
   inputs |-> << >>,         \* the input events so far, with what came of each
   last |-> NoEvent]         \* what the handler that ran last did, where a claim asks

(***************************************************************************)
(* AppState called from outside with no subscriber registered: notify()    *)
(* has nobody to call, and a method is its field updates. (What a          *)
(* subscriber does to the fields it does by calling these same methods.)   *)
(***************************************************************************)
NoHist ==
  [op |-> "none", arg |-> Null, before |-> NewAppState, store |-> [k \in {} |-> << >>],
   threw |-> FALSE, afterLoad |-> FALSE]

Called(op, arg) == [NoHist EXCEPT !.op = op, !.arg = arg, !.before = state]

SetLocation ==
  \E location \in Locations :
    /\ state' = setLocation(state, location)
    /\ hist' = Called("setLocation", location)
    /\ UNCHANGED <<uiVars, storage, available, notifyVars>>

SetWeatherData ==
  \E data \in WeatherDatas :
    /\ state' = setWeatherData(state, data)
    /\ hist' = Called("setWeatherData", data)
    /\ UNCHANGED <<uiVars, storage, available, notifyVars>>

SetLoading ==
  \E loading \in BOOLEAN :
    /\ state' = setLoading(state, loading)
    /\ hist' = Called("setLoading", Bool(loading))
    /\ UNCHANGED <<uiVars, storage, available, notifyVars>>

SetError ==
  \E error \in ErrorMessages \cup {Null} :
    /\ state' = setError(state, error)
    /\ hist' = Called("setError", error)
    /\ UNCHANGED <<uiVars, storage, available, notifyVars>>

SetTemperatureUnit ==
  \E unit \in Units :
    /\ state' = setTemperatureUnit(state, unit)
    /\ hist' = Called("setTemperatureUnit", unit)
    /\ UNCHANGED <<uiVars, storage, available, notifyVars>>

\* getItem throws exactly when the store is unavailable.
LoadFromStorage ==
  /\ state' = loadFromStorage(state, storage, available, available)
  /\ hist' = [NoHist EXCEPT !.op = "loadFromStorage", !.before = state, !.store = storage,
                            !.threw = loadFromStorageThrows(storage, available, available)]
  /\ UNCHANGED <<uiVars, storage, available, notifyVars>>

\* setItem throws when the store is unavailable, and may throw when it is full.
SaveToStorage ==
  \E room1, room2 \in BOOLEAN :
    /\ storage' = saveToStorage(state, storage, available /\ room1, available /\ room2)
    /\ hist' = [NoHist EXCEPT !.op = "saveToStorage", !.before = state, !.store = storage,
                              !.afterLoad = (hist.op = "loadFromStorage")]
    /\ UNCHANGED <<uiVars, state, available, notifyVars>>

NoCall ==
  [status |-> "none", regs |-> {}, count |-> << >>, threw |-> FALSE, used |-> 0,
   removed |-> {}, upd |-> << >>]

InitAppState ==
  /\ state = NewAppState
  /\ storage \in Stores(LocationTexts, UnitTexts)
  /\ available \in BOOLEAN
  /\ hist = NoHist
  /\ subscribers = << >>
  /\ stack = << >>
  /\ tokens = << >>
  /\ unsub = {}
  /\ call = NoCall
  /\ app = NoApp
  /\ search = NoSearch
  /\ svc = NoService

NextAppState ==
  \/ SetLocation
  \/ SetWeatherData
  \/ SetLoading
  \/ SetError
  \/ SetTemperatureUnit
  \/ LoadFromStorage
  \/ SaveToStorage

SpecAppState == InitAppState /\ [][NextAppState]_vars

(***************************************************************************)
(* AppState.subscribers is a JS Set: an entry list in insertion order.     *)
(* delete() leaves the entry empty, add() appends, and an iterator is an   *)
(* index into the list, so a pass sees what is deleted or added meanwhile. *)
(* Here a method call is followed through its notify() pass step by step,  *)
(* the callbacks being free to return, throw, or call back into AppState.  *)
(***************************************************************************)
Callbacks == {"a", "b"}
Empty == "-"

Live(subs) == { subs[i] : i \in 1..Len(subs) } \ {Empty}
SetAdd(subs, cb) == IF cb \in Live(subs) THEN subs ELSE Append(subs, cb)
SetDelete(subs, cb) == [i \in 1..Len(subs) |-> IF subs[i] = cb THEN Empty ELSE subs[i]]

NotifyDepth(stk) == Cardinality({ i \in 1..Len(stk) : stk[i].k = "notify" })
\* Empty entries are dropped once no iterator is left to skip them.
Norm(subs, stk) ==
  IF NotifyDepth(stk) = 0 THEN SelectSeq(subs, LAMBDA e : e # Empty) ELSE subs

\* Index of the first live entry at or after i; 0 when the iterator is done.
NextLive(subs, i) ==
  IF \E j \in i..Len(subs) : subs[j] # Empty
  THEN CHOOSE j \in i..Len(subs) : subs[j] # Empty /\ \A h \in i..(j - 1) : subs[h] = Empty
  ELSE 0

NotifyFrame(subs) == [k |-> "notify", i |-> 1, snap |-> subs]
CallbackFrame(cb) == [k |-> "cb", cb |-> cb]
Top == stack[Len(stack)]
Pop(stk) == SubSeq(stk, 1, Len(stk) - 1)

\* Mutant: the pass iterates a copy of the Set taken when it began.
NotifyTargetSnapshot(frame, subs) == frame.snap

\* What `for (const callback of this.subscribers)` iterates: the Set itself.
NotifyTarget(frame, subs) == subs

\* Mutant: no try/catch around the callback, the exception leaves every frame.
OnThrowUncaught(stk) == << >>

\* A callback threw: notify's try/catch swallows it and the loop goes on.
OnThrow(stk) == Pop(stk)

\* The caller is the outside world, or a running callback.
MayCall == IF stack = << >> THEN TRUE ELSE Top.k = "cb" /\ call.used < MaxReentrant

Restrict(s, fields) == [f \in fields |-> s[f]]

\* A method made its field updates (s2, to `fields`) and enters notify().
Enter(s2, fields) ==
  /\ MayCall
  /\ state' = s2
  /\ stack' = Append(stack, NotifyFrame(subscribers))
  /\ call' = IF stack = << >>
             THEN [status |-> "running", regs |-> Live(subscribers),
                   count |-> [cb \in Callbacks |-> 0], threw |-> FALSE, used |-> 0,
                   removed |-> {}, upd |-> Restrict(s2, fields)]
             ELSE [call EXCEPT !.used = @ + 1]
  /\ UNCHANGED <<uiVars, storage, available, hist, subscribers, tokens, unsub>>

EnterSetLocation ==
  Enter(setLocation(state, Paris), {"currentLocation", "error"})

EnterSetWeatherData ==
  Enter(setWeatherData(state, [t |-> "data", city |-> "Paris"]), {"weatherData", "error"})

EnterSetLoading ==
  \E loading \in BOOLEAN :
    Enter(setLoading(state, loading), IF loading THEN {"isLoading", "error"} ELSE {"isLoading"})

EnterSetError ==
  \E error \in ErrorMessages :
    Enter(setError(state, error), {"error", "isLoading"})

EnterSetTemperatureUnit ==
  \E unit \in Units :
    Enter(setTemperatureUnit(state, unit), {"temperatureUnit"})

EnterLoadFromStorage ==
  Enter(loadFromStorage(state, storage, available, available),
        {"currentLocation", "temperatureUnit"})

\* subscribe(cb) adds cb and hands out an unsubscribe function.
Subscribe ==
  \E cb \in Callbacks :
    /\ MayCall
    /\ subscribers' = SetAdd(subscribers, cb)
    /\ tokens' = [tokens EXCEPT ![cb] = @ \cup {"fresh"}]
    /\ unsub' = unsub \ {cb}
    /\ call' = IF stack = << >> THEN NoCall ELSE [call EXCEPT !.used = @ + 1]
    /\ UNCHANGED <<uiVars, state, storage, available, hist, stack>>

\* Calling an unsubscribe function of cb, one not called before ("fresh") or one
\* that was ("spent"): either way it runs this.subscribers.delete(cb).
Unsubscribe ==
  \E cb \in Callbacks, which \in {"fresh", "spent"} :
    /\ MayCall
    /\ which \in tokens[cb]
    /\ subscribers' = Norm(SetDelete(subscribers, cb), stack)
    /\ tokens' = [tokens EXCEPT ![cb] = IF which = "fresh" THEN {"spent"} ELSE @]
    /\ unsub' = unsub \cup {cb}
    /\ call' = IF stack = << >> THEN NoCall
               ELSE [call EXCEPT !.used = @ + 1,
                                 !.removed = @ \cup (Live(subscribers) \cap {cb})]
    /\ UNCHANGED <<uiVars, state, storage, available, hist, stack>>

\* notify(): the loop takes the next subscriber and calls it.
NotifyInvoke ==
  /\ stack # << >> /\ Top.k = "notify"
  /\ LET tgt == NotifyTarget(Top, subscribers)
         j == NextLive(tgt, Top.i)
     IN /\ j # 0
        /\ stack' = Append([stack EXCEPT ![Len(stack)].i = j + 1], CallbackFrame(tgt[j]))
        /\ call' = [call EXCEPT !.count[tgt[j]] = IF @ < 2 THEN @ + 1 ELSE @]
  /\ UNCHANGED <<uiVars, state, storage, available, hist, subscribers, tokens, unsub>>

\* notify(): the loop is done, the method returns to its caller.
NotifyReturn ==
  /\ stack # << >> /\ Top.k = "notify"
  /\ NextLive(NotifyTarget(Top, subscribers), Top.i) = 0
  /\ stack' = Pop(stack)
  /\ subscribers' = Norm(subscribers, stack')
  /\ call' = IF stack' = << >> THEN [call EXCEPT !.status = "returned"] ELSE call
  /\ UNCHANGED <<uiVars, state, storage, available, hist, tokens, unsub>>

CallbackReturn ==
  /\ stack # << >> /\ Top.k = "cb"
  /\ stack' = Pop(stack)
  /\ UNCHANGED <<uiVars, state, storage, available, hist, subscribers, tokens, unsub, call>>

CallbackThrow ==
  /\ stack # << >> /\ Top.k = "cb"
  /\ stack' = OnThrow(stack)
  /\ subscribers' = Norm(subscribers, stack')
  /\ call' = [call EXCEPT !.threw = TRUE,
                          !.status = IF stack' = << >> THEN "threw" ELSE @]
  /\ UNCHANGED <<uiVars, state, storage, available, hist, tokens, unsub>>

InitNotify ==
  /\ state = NewAppState
  /\ storage \in Stores({JSONstringify(London)}, {JSONstringify(Str("F"))})
  /\ available = TRUE
  /\ hist = NoHist
  /\ subscribers = << >>
  /\ stack = << >>
  /\ tokens = [cb \in Callbacks |-> {}]
  /\ unsub = {}
  /\ call = NoCall
  /\ app = NoApp
  /\ search = NoSearch
  /\ svc = NoService

NextNotify ==
  \/ EnterSetLocation
  \/ EnterSetWeatherData
  \/ EnterSetLoading
  \/ EnterSetError
  \/ EnterSetTemperatureUnit
  \/ EnterLoadFromStorage
  \/ Subscribe
  \/ Unsubscribe
  \/ NotifyInvoke
  \/ NotifyReturn
  \/ CallbackReturn
  \/ CallbackThrow

SpecNotify == InitNotify /\ [][NextNotify]_vars

(***************************************************************************)
(* Re-entrant mutation without a limit of the model's own: a running       *)
(* callback may call setLoading as often as it likes, and each call runs a *)
(* pass within the pass. What ends the nesting is the engine: when its     *)
(* call stack is exhausted the call throws a RangeError.                   *)
(***************************************************************************)
StackLimit == 3   \* the passes the engine's call stack has room for

\* A running callback calls setLoading.
ReentrantSetLoading ==
  \E loading \in BOOLEAN :
    /\ stack # << >> /\ Top.k = "cb"
    /\ NotifyDepth(stack) < StackLimit
    /\ state' = setLoading(state, loading)
    /\ stack' = Append(stack, NotifyFrame(subscribers))
    /\ UNCHANGED <<uiVars, storage, available, hist, subscribers, tokens, unsub, call>>

\* A running callback calls setLoading with the call stack exhausted: the
\* RangeError leaves the callback and is caught by the pass that invoked it.
StackExhausted ==
  /\ stack # << >> /\ Top.k = "cb"
  /\ NotifyDepth(stack) = StackLimit
  /\ stack' = OnThrow(stack)
  /\ subscribers' = Norm(subscribers, stack')
  /\ call' = [call EXCEPT !.threw = TRUE,
                          !.status = IF stack' = << >> THEN "threw" ELSE @]
  /\ UNCHANGED <<uiVars, state, storage, available, hist, tokens, unsub>>

InitReentrant ==
  /\ state = NewAppState
  /\ storage = [k \in {} |-> << >>]
  /\ available = TRUE
  /\ hist = NoHist
  /\ subscribers \in {<<"a">>, <<"a", "b">>}
  /\ stack = << >>
  /\ tokens = [cb \in Callbacks |-> IF cb \in Live(subscribers) THEN {"fresh"} ELSE {}]
  /\ unsub = {}
  /\ call = NoCall
  /\ app = NoApp
  /\ search = NoSearch
  /\ svc = NoService

\* setLoading is called from outside.
OutsideSetLoading == stack = << >> /\ EnterSetLoading

NextReentrant ==
  \/ OutsideSetLoading
  \/ NotifyInvoke
  \/ NotifyReturn
  \/ CallbackReturn
  \/ CallbackThrow
  \/ ReentrantSetLoading
  \/ StackExhausted

SpecReentrant == InitReentrant /\ [][NextReentrant]_vars

(***************************************************************************)
(* The WeatherService. A call awaits axios.get inside try; what axios      *)
(* resolves to is transformed, what it rejects with, or what the           *)
(* transformation throws, goes through handleApiError and is thrown.       *)
(***************************************************************************)
Digits == <<"0", "1", "2", "3", "4", "5", "6", "7", "8", "9">>

\* A number in a template literal.
RECURSIVE Decimal(_)
Decimal(n) == IF n < 10 THEN Digits[n + 1] ELSE Decimal(n \div 10) \o Digits[(n % 10) + 1]

\* The dash of the messages is the em dash, written here in ASCII.
Dash == " - "

\* The body of an error response: the provider's error message, or none.
NoBody == [none |-> TRUE]
ErrorBody(message) == [error |-> [message |-> message]]
Response(status, data) == [status |-> status, data |-> data]
AxiosError(response, code, message) ==
  [t |-> "AxiosError", response |-> response, code |-> code, message |-> message]
StatusText(status) == "Request failed with status code " \o Decimal(status)

\* A value thrown that is no AxiosError, and String(error) of it.
TypeError(message) == [t |-> "TypeError", message |-> message]
String(error) == error.t \o ": " \o error.message

\* error.response.data?.error?.message || error.message
ResponseMessage(error) ==
  LET data == error.response.data
  IN  IF "error" \in DOMAIN data /\ data.error.message # ""
      THEN data.error.message
      ELSE error.message

\* The message of the Error that is thrown to the caller.
handleApiErrorBare(error, context) ==
  IF error.t = "AxiosError" THEN "Network error" \o Dash \o error.message
  ELSE "Unexpected error" \o Dash \o String(error)

handleApiError(error, context) ==
  IF error.t = "AxiosError"
  THEN IF error.response # Undefined
       THEN LET status == error.response.status
                message == ResponseMessage(error)
            IN  IF status = 400 THEN context \o ": Invalid request" \o Dash \o message
                ELSE IF status = 401 \/ status = 403
                THEN context \o ": Authentication failed" \o Dash \o "check your API key"
                ELSE IF status = 404 THEN context \o ": Location not found"
                ELSE context \o ": API error (" \o Decimal(status) \o ")" \o Dash \o message
       ELSE IF error.code = "ECONNABORTED" THEN context \o ": Request timed out"
       ELSE context \o ": Network error" \o Dash \o error.message
  ELSE context \o ": Unexpected error" \o Dash \o String(error)

CurrentContext(city) == "Failed to fetch current weather for \"" \o city \o "\""
ForecastContext(city) == "Failed to fetch forecast for \"" \o city \o "\""
SearchContext(query) == "Failed to search locations for \"" \o query \o "\""

Has(r, field) == field \in DOMAIN r

\* data.forecast?.forecastday ?? []
ForecastDays(data) ==
  IF Has(data, "forecast") /\ Has(data.forecast, "forecastday")
  THEN data.forecast.forecastday
  ELSE << >>

DayForecastSwapped(day) ==
  [date |-> day.date,
   maxTemp |-> day.day.mintemp_c,
   minTemp |-> day.day.maxtemp_c,
   condition |-> day.day.condition.text,
   description |-> day.day.condition.text,
   icon |-> day.day.condition.icon,
   humidity |-> day.day.avghumidity,
   windSpeed |-> day.day.maxwind_kph]

DayForecast(day) ==
  [date |-> day.date,
   maxTemp |-> day.day.maxtemp_c,
   minTemp |-> day.day.mintemp_c,
   condition |-> day.day.condition.text,
   description |-> day.day.condition.text,
   icon |-> day.day.condition.icon,
   humidity |-> day.day.avghumidity,
   windSpeed |-> day.day.maxwind_kph]

\* Reading a property of a missing section throws a TypeError.
transformThrows(data) == ~Has(data, "location") \/ ~Has(data, "current")

transformWeatherResponse(data) ==
  [location |-> [name |-> data.location.name,
                 country |-> data.location.country,
                 lat |-> data.location.lat,
                 lon |-> data.location.lon],
   current |-> [temperature |-> data.current.temp_c,
                condition |-> data.current.condition.text,
                description |-> data.current.condition.text,
                humidity |-> data.current.humidity,
                windSpeed |-> data.current.wind_kph,
                pressure |-> data.current.pressure_mb,
                visibility |-> data.current.vis_km,
                uvIndex |-> data.current.uv,
                icon |-> data.current.condition.icon],
   forecast |-> [i \in 1..Len(ForecastDays(data)) |-> DayForecast(ForecastDays(data)[i])]]

\* response.data.map(...) of searchLocations.
SuggestionOf(item) ==
  [name |-> item.name, country |-> item.country, region |-> item.region,
   lat |-> item.lat, lon |-> item.lon]

Return(value) == [ok |-> TRUE, value |-> value]
Raise(message) == [ok |-> FALSE, message |-> message]

UndefinedRead == TypeError("Cannot read properties of undefined")

\* Both weather operations after their await: the try block, then the catch.
WeatherCall(outcome, context) ==
  IF outcome.t = "response"
  THEN IF transformThrows(outcome.data)
       THEN Raise(handleApiError(UndefinedRead, context))
       ELSE Return(transformWeatherResponse(outcome.data))
  ELSE Raise(handleApiError(outcome, context))

WeatherService_getCurrentWeather(city, outcome) ==
  WeatherCall(outcome, CurrentContext(city))

WeatherService_getForecast(city, days, outcome) ==
  WeatherCall(outcome, ForecastContext(city))

WeatherService_searchLocations(query, outcome) ==
  IF outcome.t = "response"
  THEN IF Has(outcome.data, "list")
       THEN Return([i \in 1..Len(outcome.data.list) |-> SuggestionOf(outcome.data.list[i])])
       ELSE Raise(handleApiError(TypeError("response.data.map is not a function"),
                                 SearchContext(query)))
  ELSE Raise(handleApiError(outcome, SearchContext(query)))

\* Provider payloads: every number of a payload is a different one.
ApiCondition(text) == [text |-> text, icon |-> "//cdn.weatherapi.com/" \o text \o ".png"]

ApiLocation ==
  [name |-> "London", region |-> "City of London, Greater London",
   country |-> "United Kingdom", lat |-> Num("51.52"), lon |-> Num("-0.11")]

ApiCurrent ==
  [temp_c |-> Num("20.5"), condition |-> ApiCondition("Sunny"), humidity |-> 60,
   wind_kph |-> 15, pressure_mb |-> 1012, vis_km |-> 10, uv |-> 5]

ApiDay(date, maxtemp, mintemp, text) ==
  [date |-> date,
   day |-> [maxtemp_c |-> maxtemp, mintemp_c |-> mintemp, condition |-> ApiCondition(text),
            avghumidity |-> 70, maxwind_kph |-> 25]]

ApiDays ==
  LET d1 == ApiDay("2024-05-01", 22, 12, "Sunny")
      d2 == ApiDay("2024-05-02", 18, 9, "Rain")
      d3 == ApiDay("2024-05-03", 18, 9, "Rain")
  IN  { << >>, <<d1>>, <<d1, d2>>, <<d2, d1>>, <<d1, d2, d3>>, <<d2, d2>> }

WeatherPayloads ==
  { [location |-> ApiLocation, current |-> ApiCurrent, forecast |-> [forecastday |-> days]] :
      days \in ApiDays }
  \cup { [location |-> ApiLocation, current |-> ApiCurrent],
         [location |-> ApiLocation, current |-> ApiCurrent, forecast |-> Null],
         [location |-> ApiLocation],
         [error |-> [message |-> "Internal application error."]] }

ApiItem(id, location) ==
  [id |-> id, name |-> Prop(location, "name").s, region |-> Prop(location, "region").s,
   country |-> Prop(location, "country").s, lat |-> Prop(location, "lat"),
   lon |-> Prop(location, "lon"), url |-> "item-" \o Decimal(id)]

SearchPayloads ==
  { [list |-> << >>], [list |-> <<ApiItem(1, London)>>],
    [list |-> <<ApiItem(2, Paris), ApiItem(1, London)>>],
    [error |-> [message |-> "Internal application error."]] }

Statuses == {400, 401, 403, 404, 429, 500}
ErrorBodies == { NoBody, ErrorBody(""), ErrorBody("No matching location found.") }

\* What axios.get may reject with.
Rejections ==
  { AxiosError(Response(status, data), "ERR_BAD_RESPONSE", StatusText(status)) :
      status \in Statuses, data \in ErrorBodies }
  \cup { AxiosError(Undefined, "ECONNABORTED", "timeout of 5000ms exceeded"),
         AxiosError(Undefined, "ERR_NETWORK", "Network Error"),
         AxiosError(Undefined, "ERR_CANCELED", "canceled"),
         TypeError("Invalid URL") }

Operations == {"getCurrentWeather", "getForecast", "searchLocations"}
Queries == {"London", "48.8566,2.3522"}
DEFAULT_DAYS == 5

\* What axios.get may do for an operation.
Outcomes(op) ==
  Rejections \cup
  { [t |-> "response", data |-> data] :
      data \in IF op = "searchLocations" THEN SearchPayloads ELSE WeatherPayloads }

\* An operation is called: it awaits axios.get.
ServiceCalled ==
  \E op \in Operations, query \in Queries :
    /\ svc.phase # "called"
    /\ svc' = [phase |-> "called", op |-> op, query |-> query]
    /\ UNCHANGED <<state, storage, available, hist, notifyVars, app, search>>

\* axios.get settles and the operation returns or throws.
ServiceSettles ==
  /\ svc.phase = "called"
  /\ \E outcome \in Outcomes(svc.op) :
    /\ svc' = [phase |-> "settled", op |-> svc.op, query |-> svc.query, outcome |-> outcome,
               result |-> CASE svc.op = "getCurrentWeather" ->
                                 WeatherService_getCurrentWeather(svc.query, outcome)
                            [] svc.op = "getForecast" ->
                                 WeatherService_getForecast(svc.query, DEFAULT_DAYS, outcome)
                            [] svc.op = "searchLocations" ->
                                 WeatherService_searchLocations(svc.query, outcome)]
    /\ UNCHANGED <<state, storage, available, hist, notifyVars, app, search>>

InitService ==
  /\ state = NewAppState
  /\ storage = [k \in {} |-> << >>]
  /\ available = TRUE
  /\ hist = NoHist
  /\ subscribers = << >>
  /\ stack = << >>
  /\ tokens = << >>
  /\ unsub = {}
  /\ call = NoCall
  /\ app = NoApp
  /\ search = NoSearch
  /\ svc = NoService

NextService ==
  \/ ServiceCalled
  \/ ServiceSettles

SpecService == InitService /\ [][NextService]_vars

(***************************************************************************)
(* The App controller. JavaScript runs one handler to its end, or to its   *)
(* next await, before the next one starts, so an action is one handler:    *)
(* init(), a location selection, a timer tick, the online event, and the   *)
(* continuation of a load once its getForecast call has settled. The       *)
(* controller's own subscriber saves to storage at every notify().         *)
(***************************************************************************)
MaxFetches == 3   \* getForecast calls made in one run

DEFAULT_CITY == "London"

\* Two ways a forecast request fails.
FetchFailures == { AxiosError(Response(404, NoBody), "ERR_BAD_REQUEST", StatusText(404)),
                   AxiosError(Undefined, "ECONNABORTED", "timeout exceeded") }

\* What getForecast resolves to: the weather of a city, as the n-th call found
\* it. A temperature is canonical Celsius, counted in tenths of a degree.
WeatherData(city, n) ==
  [t |-> "data", city |-> city, fetch |-> n, current |-> [temperature |-> 200 + 5 * n]]
Forecast(data) == [t |-> "forecast", city |-> data.city, fetch |-> data.fetch]

\* The location loadWeatherForCity builds from data.location.
DataLocation(data) ==
  LET l == CHOOSE x \in Locations : Prop(x, "name") = Str(data.city)
  IN  Obj(<< <<"name", Prop(l, "name")>>, <<"country", Prop(l, "country")>>,
             <<"region", Str("")>>, <<"lat", Prop(l, "lat")>>, <<"lon", Prop(l, "lon")>> >>)

\* Math.round of the quotient num / den (den > 0): the nearest integer, a
\* half going up.
MathRound(num, den) == (2 * num + den) \div (2 * den)

\* A number in a template literal; Math.round's -0 prints as 0.
NumberText(n) == IF n < 0 THEN "-" \o Decimal(0 - n) ELSE Decimal(n)

\* celsius * 9 / 5 + 32 of a temperature in tenths is (9 * tenths + 1600) / 50.
\* The float product is exact wherever the quotient falls on a half.
\* formatTemp without its Fahrenheit branch.
formatTempBothCelsius(unit, tenths) == NumberText(MathRound(tenths, 10))
formatTemp(unit, tenths) ==
  IF unit = Str("F")
  THEN NumberText(MathRound(9 * tenths + 1600, 50))
  ELSE NumberText(MathRound(tenths, 10))

\* The current-conditions panel with data: the temperature text and the
\* unit on the toggle button.
CurrentView(data, unit) ==
  [kind |-> "data", data |-> data, unit |-> unit, temp |-> formatTemp(unit, data.current.temperature)]

CurrentWeather_render(a, data) ==
  [a EXCEPT !.cwData = data, !.current = CurrentView(data, a.cwUnit)]
CurrentWeather_toggleTemperatureUnit(a) ==
  LET a1 == [a EXCEPT !.cwUnit = IF @ = Str("C") THEN Str("F") ELSE Str("C")]
  IN  IF a1.cwData # Null THEN CurrentWeather_render(a1, a1.cwData) ELSE a1
CurrentWeather_showLoading(a) == [a EXCEPT !.current = Skeleton]
CurrentWeather_showError(a, message) == [a EXCEPT !.current = ErrorView(message)]
WeatherForecast_render(a, forecast, unit) == [a EXCEPT !.forecast = DataView(forecast, unit)]
WeatherForecast_showLoading(a) == [a EXCEPT !.forecast = Skeleton]

\* The program as a handler sees it and leaves it.
World == [state |-> state, storage |-> storage, app |-> app]

\* An AppState mutation to s2 with the controller subscribed: notify() calls
\* the subscriber, which calls saveToStorage().
Notified(w, s2) ==
  [w EXCEPT !.state = s2, !.storage = saveToStorage(s2, w.storage, available, available)]

\* The call is made and the load waits for it.
getForecast(w, load) ==
  [w EXCEPT !.app.issued = @ + 1,
            !.app.fetches = ((w.app.issued + 1) :> load) @@ @]

\* loadWeatherForLocation up to its await.
loadWeatherForLocation(w, location) ==
  LET w1 == Notified(w, setLocation(w.state, location))
      w2 == Notified(w1, setLoading(w1.state, TRUE))
      w3 == [w2 EXCEPT !.app = WeatherForecast_showLoading(CurrentWeather_showLoading(w2.app))]
  IN  getForecast(w3, [by |-> "loadWeatherForLocation", city |-> Prop(location, "name").s,
                       forecastBefore |-> w.app.forecast])

\* loadWeatherForCity up to its await.
loadWeatherForCity(w, city) ==
  LET w1 == Notified(w, setLoading(w.state, TRUE))
      w2 == [w1 EXCEPT !.app = WeatherForecast_showLoading(CurrentWeather_showLoading(w1.app))]
  IN  getForecast(w2, [by |-> "loadWeatherForCity", city |-> city,
                       forecastBefore |-> w.app.forecast])

handleErrorStateOnly(w, message) == Notified(w, setError(w.state, Str(message)))

handleError(w, message) ==
  LET w1 == Notified(w, setError(w.state, Str(message)))
  IN  [w1 EXCEPT !.app = CurrentWeather_showError(w1.app, message)]

\* The try block ending at setWeatherData, with nothing rendered.
ResolvedUnrendered(w, load, data) == Notified(w, setWeatherData(w.state, data))

\* The rest of the try block once the awaited call has resolved to data.
Resolved(w, load, data) ==
  LET w0 == IF load.by = "loadWeatherForCity"
            THEN Notified(w, setLocation(w.state, DataLocation(data)))
            ELSE w
      w1 == Notified(w0, setWeatherData(w0.state, data))
      w2 == Notified(w1, setLoading(w1.state, FALSE))
      w3 == [w2 EXCEPT !.storage = saveToStorage(w2.state, w2.storage, available, available)]
  IN  [w3 EXCEPT !.app = WeatherForecast_render(CurrentWeather_render(w3.app, data),
                                                Forecast(data), w3.state.temperatureUnit)]

\* The load from its await to its end: the try block either runs through or
\* throws the Error of the rejected call, which the catch block hands to
\* handleError. The load raises what is thrown and not caught.
Settled(w, load, result) ==
  LET try == IF result.ok
             THEN [thrown |-> FALSE, w |-> Resolved(w, load, result.data)]
             ELSE [thrown |-> TRUE, message |-> result.message, w |-> w]
  IN  IF try.thrown
      THEN [raised |-> FALSE, w |-> handleError(try.w, try.message)]
      ELSE [raised |-> FALSE, w |-> try.w]

\* What an event found: the fetches outstanding and made when it arrived.
Event(ev) ==
  [ev |-> ev, started |-> FALSE, outstanding |-> Cardinality(DOMAIN app.fetches),
   issued |-> app.issued, load |-> [by |-> "none"], fetch |-> 0, message |-> "",
   raised |-> FALSE, before |-> state]

Apply(w, event) ==
  /\ state' = w.state
  /\ storage' = w.storage
  /\ app' = [w.app EXCEPT !.last = event]
  /\ UNCHANGED <<available, hist, notifyVars, search, svc>>

\* init(): the layout, the components and the listeners are set up, the
\* saved preferences are loaded, the first load starts.
AppInit ==
  /\ ~app.started
  /\ LET w0 == [World EXCEPT !.app.started = TRUE]
         w1 == Notified(w0, loadFromStorage(w0.state, w0.storage, available, available))
         w2 == IF Truthy(w1.state.currentLocation)
               THEN loadWeatherForLocation(w1, w1.state.currentLocation)
               ELSE loadWeatherForCity(w1, DEFAULT_CITY)
     IN  Apply(w2, [Event("init") EXCEPT !.started = TRUE])

\* The locationSelected listener.
LocationSelected ==
  \E location \in Locations :
    /\ app.started
    /\ app.issued < MaxFetches
    /\ Apply(loadWeatherForLocation(World, location),
             [Event("locationSelected") EXCEPT !.started = TRUE])

\* The setInterval callback of startAutoRefresh.
RefreshTick ==
  /\ app.started
  /\ IF Truthy(state.currentLocation) /\ ~state.isLoading
     THEN /\ app.issued < MaxFetches
          /\ Apply(loadWeatherForLocation(World, state.currentLocation),
                   [Event("tick") EXCEPT !.started = TRUE])
     ELSE Apply(World, Event("tick"))

handleOnline ==
  /\ app.started
  /\ IF Truthy(state.currentLocation)
     THEN /\ app.issued < MaxFetches
          /\ Apply(loadWeatherForLocation(World, state.currentLocation),
                   [Event("online") EXCEPT !.started = TRUE])
     ELSE Apply(World, Event("online"))

Without(f, n) == [k \in DOMAIN f \ {n} |-> f[k]]

\* A getForecast call resolves and the load that awaited it goes on.
FetchResolves ==
  \E n \in DOMAIN app.fetches :
    LET load == app.fetches[n]
        w == [World EXCEPT !.app.fetches = Without(@, n), !.app.loaded = @ \cup {load.city}]
        end == Settled(w, load, [ok |-> TRUE, data |-> WeatherData(load.city, n)])
    IN  Apply(end.w, [Event("resolved") EXCEPT !.load = load, !.fetch = n,
                                               !.raised = end.raised])

\* A getForecast call rejects and the load that awaited it goes on.
FetchRejects ==
  \E n \in DOMAIN app.fetches, failure \in FetchFailures :
    LET load == app.fetches[n]
        message == handleApiError(failure, ForecastContext(load.city))
        w == [World EXCEPT !.app.fetches = Without(@, n)]
        end == Settled(w, load, [ok |-> FALSE, message |-> message])
    IN  Apply(end.w, [Event("rejected") EXCEPT !.load = load, !.fetch = n,
                                               !.message = message, !.raised = end.raised])

\* A click on the unit button the current-conditions panel renders with its
\* data: the listener calls the panel's own toggleTemperatureUnit and
\* nothing else.
UnitToggleClicked ==
  /\ app.current.kind = "data"
  /\ app' = [CurrentWeather_toggleTemperatureUnit(app) EXCEPT !.last =
               [ev |-> "unitToggle", shown |-> app.current.temp, data |-> app.cwData,
                earlier |-> IF app.last.ev = "unitToggle"
                            THEN << [shown |-> app.last.shown, data |-> app.last.data] >>
                            ELSE << >>]]
  /\ UNCHANGED <<state, storage, available, hist, notifyVars, search, svc>>

AppLocationTexts ==
  { JSONstringify(Paris),
    JSONstringify(Obj(<< <<"name", Str("")>>, <<"country", Str("X")>> >>)) }
AppUnitTexts == { JSONstringify(Str("F")) }

InitApp ==
  /\ state = NewAppState
  /\ storage \in Stores(AppLocationTexts, AppUnitTexts)
  /\ available \in BOOLEAN
  /\ hist = NoHist
  /\ subscribers = << >>
  /\ stack = << >>
  /\ tokens = << >>
  /\ unsub = {}
  /\ call = NoCall
  /\ app = NoApp
  /\ search = NoSearch
  /\ svc = NoService

NextApp ==
  \/ AppInit
  \/ LocationSelected
  \/ RefreshTick
  \/ handleOnline
  \/ FetchResolves
  \/ FetchRejects
  \/ UnitToggleClicked

SpecApp == InitApp /\ [][NextApp]_vars

(***************************************************************************)
(* The current-conditions panel on its own: CurrentWeather driven through  *)
(* its public methods and its unit button, with data of any temperature.   *)
(***************************************************************************)
Cold == 300   \* tenths of a degree below zero the data goes down to
Warm == 400   \* tenths of a degree above zero the data goes up to
Celsius == (0 - Cold)..Warm

PanelData(tenths) ==
  [t |-> "data", city |-> "London", fetch |-> 0, current |-> [temperature |-> tenths]]

PanelRender ==
  \E tenths \in Celsius :
    /\ app' = [CurrentWeather_render(app, PanelData(tenths)) EXCEPT !.last = [ev |-> "render"]]
    /\ UNCHANGED <<state, storage, available, hist, notifyVars, search, svc>>

PanelShowLoading ==
  /\ app' = [CurrentWeather_showLoading(app) EXCEPT !.last = [ev |-> "showLoading"]]
  /\ UNCHANGED <<state, storage, available, hist, notifyVars, search, svc>>

PanelShowError ==
  /\ app' = [CurrentWeather_showError(app, "Network error") EXCEPT !.last = [ev |-> "showError"]]
  /\ UNCHANGED <<state, storage, available, hist, notifyVars, search, svc>>

InitPanel ==
  /\ state = NewAppState
  /\ storage = [k \in {} |-> ""]
  /\ available = TRUE
  /\ hist = NoHist
  /\ subscribers = << >>
  /\ stack = << >>
  /\ tokens = << >>
  /\ unsub = {}
  /\ call = NoCall
  /\ app = NoApp
  /\ search = NoSearch
  /\ svc = NoService

NextPanel ==
  \/ PanelRender
  \/ PanelShowLoading
  \/ PanelShowError
  \/ UnitToggleClicked

SpecPanel == InitPanel /\ [][NextPanel]_vars

(***************************************************************************)
(* The LocationSearch component. Time advances in steps of TickMs; a       *)
(* timeout that has expired runs before any later event is handled.        *)
(***************************************************************************)
MaxInputs == 2    \* input events in one run
MaxLocates == 1   \* runs of handleGeolocation in progress at a time
TickMs == 100     \* the step in which time advances

DEBOUNCE_MS == 300
MIN_QUERY_LENGTH == 2

IsSpace(c) == c = " "

RECURSIVE TrimStart(_)
TrimStart(text) ==
  IF text # << >> /\ IsSpace(Head(text)) THEN TrimStart(Tail(text)) ELSE text

RECURSIVE TrimEnd(_)
TrimEnd(text) ==
  IF text # << >> /\ IsSpace(text[Len(text)])
  THEN TrimEnd(SubSeq(text, 1, Len(text) - 1))
  ELSE text

trim(text) == TrimEnd(TrimStart(text))

DetectingText == <<"Detecting location...">>
LocationText(location) == <<Prop(location, "name").s, ", ", Prop(location, "country").s>>

hideDropdown(s) == [s EXCEPT !.shown = FALSE]
showDropdown(s) == [s EXCEPT !.shown = TRUE]

renderDropdown(s) ==
  IF s.isLoading THEN showDropdown([s EXCEPT !.dropdown = Skeleton])
  ELSE IF Len(s.suggestions) = 0
       THEN showDropdown([s EXCEPT !.dropdown = [kind |-> "empty"]])
       ELSE showDropdown([s EXCEPT !.dropdown = [kind |-> "suggestions", list |-> s.suggestions]])

renderDropdownError(s, message) ==
  showDropdown([s EXCEPT !.dropdown = ErrorView(message)])

\* dispatchEvent: the handler that runs has emitted the event for location.
emitLocationSelected(s, location) == [s EXCEPT !.last.emitted = location]

clearTimeout(s, id) == [s EXCEPT !.timeouts = {t \in @ : t.id # id}]

\* setTimeout(() => this.searchLocations(query), 300), for the input event
\* handled now; the id returned is kept in debounceTimer.
setTimeout(s, query) ==
  [s EXCEPT !.timersSet = @ + 1,
            !.debounceTimer = s.timersSet + 1,
            !.timeouts = @ \cup {[id |-> s.timersSet + 1, query |-> query,
                                  left |-> DEBOUNCE_MS, ev |-> Len(s.inputs)]}]

handleInputKeepsTimer(s) ==
  LET query == trim(s.value)
  IN  IF Len(query) < MIN_QUERY_LENGTH THEN hideDropdown(s) ELSE setTimeout(s, query)

handleInput(s) ==
  LET query == trim(s.value)
      s1 == IF s.debounceTimer # 0 THEN clearTimeout(s, s.debounceTimer) ELSE s
  IN  IF Len(query) < MIN_QUERY_LENGTH THEN hideDropdown(s1) ELSE setTimeout(s1, query)

\* weatherService.searchLocations(query) is called and awaited by a run of
\* searchLocations ("search") or of handleGeolocation ("geo").
\* Calls alike in caller and query are told apart by their number k.
Lookup(s, by, query) ==
  LET alike == {l \in s.lookups : l.by = by /\ l.query = query}
  IN  [s EXCEPT !.lookups = @ \cup {[by |-> by, query |-> query, k |-> Cardinality(alike) + 1]}]

\* One of the calls has settled.
Answered(s, l) ==
  LET alike == {x \in s.lookups : x.by = l.by /\ x.query = l.query}
  IN  [s EXCEPT !.lookups = @ \ {x \in alike : x.k = Cardinality(alike)}]

\* searchLocations up to its await.
searchLocations(s, query) ==
  Lookup(renderDropdown([s EXCEPT !.isLoading = TRUE]), "search", query)

\* The rest of searchLocations once the awaited call has settled.
searchLocationsSettled(s, result) ==
  IF result.ok
  THEN renderDropdown([s EXCEPT !.suggestions = result.list, !.isLoading = FALSE])
  ELSE renderDropdownError([s EXCEPT !.isLoading = FALSE, !.suggestions = << >>],
                           "Failed to search locations. Please try again.")

\* handleGeolocation up to its first await, or to its end without the capability.
handleGeolocation(s) ==
  IF ~s.geolocation
  THEN [renderDropdownError(s, "Geolocation is not supported by your browser.")
          EXCEPT !.last.outcome = "failed", !.last.cause = "unsupported"]
  ELSE [s EXCEPT !.isLoading = TRUE, !.value = DetectingText, !.disabled = TRUE,
                 !.locating = @ + 1]

\* The catch block of handleGeolocation, then its finally block.
geolocationCaught(s, cause) ==
  [renderDropdownError([s EXCEPT !.disabled = FALSE, !.value = << >>],
                       "Unable to get your location. Please check permissions.")
     EXCEPT !.isLoading = FALSE, !.last.outcome = "failed", !.last.cause = cause]

\* The position has arrived: the coordinate search is called and awaited.
geolocationPositioned(s) == Lookup(s, "geo", <<"48.8566,2.3522">>)

\* The coordinate search has resolved: the rest of the try block, then finally.
geolocationResults(s, results) ==
  LET s1 == [s EXCEPT !.disabled = FALSE]
      s2 == IF Len(results) > 0
            THEN [emitLocationSelected([s1 EXCEPT !.value = LocationText(results[1])],
                                       results[1])
                    EXCEPT !.last.outcome = "selected"]
            ELSE [renderDropdownError(s1, "Could not determine your location.")
                    EXCEPT !.last.outcome = "failed", !.last.cause = "empty"]
  IN  [s2 EXCEPT !.isLoading = FALSE]

destroy(s) ==
  LET s1 == IF s.debounceTimer # 0 THEN clearTimeout(s, s.debounceTimer) ELSE s
  IN  [s1 EXCEPT !.destroyed = TRUE]

\* What the user may type into the box.
Typed ==
  { <<" ", "L", " ">>, <<" ", "L", "o", " ">>, <<"L", "o", "n">>, <<"L", "o", "n", "d">> }

\* What the provider may answer to a search.
Results == { << >>, <<Paris, London>> }

PositionErrors == {"denied", "timeout"}

\* A handler starts: it has done nothing yet.
Handling(ev) ==
  [search EXCEPT !.last = [ev |-> ev, outcome |-> "", cause |-> "", emitted |-> Null]]

\* The runs of handleGeolocation that wait for a position or for the search.
Locating == search.locating + Cardinality({l \in search.lookups : l.by = "geo"})

SearchStep(s) ==
  /\ search' = s
  /\ UNCHANGED <<state, storage, available, hist, notifyVars, app, svc>>

NoneDue == \A t \in search.timeouts : t.left > 0

\* The user edits the text: the input event, handled by handleInput.
InputEvent ==
  \E text \in Typed \ {search.value} :
    /\ NoneDue
    /\ ~search.destroyed
    /\ ~search.disabled
    /\ Len(search.inputs) < MaxInputs
    /\ LET s0 == Handling("other")
           earlier == [i \in DOMAIN s0.inputs |->
                         IF s0.inputs[i].age < DEBOUNCE_MS
                         THEN [s0.inputs[i] EXCEPT !.superseded = TRUE]
                         ELSE s0.inputs[i]]
           event == [text |-> text, age |-> 0, superseded |-> FALSE, calls |-> << >>]
       IN  SearchStep(handleInput([s0 EXCEPT !.value = text,
                                             !.inputs = Append(earlier, event)]))

\* Time passes: by TickMs, or by what is left until the next timeout expires.
Advance ==
  /\ NoneDue
  /\ LET passed(ms) == IF ms + TickMs > DEBOUNCE_MS THEN DEBOUNCE_MS ELSE ms + TickMs
         left(ms) == IF ms > TickMs THEN ms - TickMs ELSE 0
     IN  SearchStep([search EXCEPT
           !.timeouts = {[t EXCEPT !.left = left(@)] : t \in @},
           !.inputs = [i \in DOMAIN @ |-> [@[i] EXCEPT !.age = passed(@)]]])

\* An expired timeout runs its callback: searchLocations(query).
TimeoutRuns ==
  \E t \in search.timeouts :
    /\ t.left = 0
    /\ LET s0 == Handling("other")
           s1 == [s0 EXCEPT !.timeouts = @ \ {t},
                            !.inputs[t.ev].calls = Append(@, t.query)]
       IN  SearchStep(searchLocations(s1, t.query))

SearchResolves ==
  \E l \in search.lookups, list \in Results :
    /\ NoneDue
    /\ l.by = "search"
    /\ LET s0 == Answered(Handling("other"), l)
       IN  SearchStep(searchLocationsSettled(s0, [ok |-> TRUE, list |-> list]))

SearchRejects ==
  \E l \in search.lookups :
    /\ NoneDue
    /\ l.by = "search"
    /\ LET s0 == Answered(Handling("other"), l)
       IN  SearchStep(searchLocationsSettled(s0, [ok |-> FALSE]))

\* A click on a suggestion button of the dropdown.
SuggestionClicked ==
  \E index \in 1..Len(search.suggestions) :
    /\ NoneDue
    /\ ~search.destroyed
    /\ search.shown
    /\ search.dropdown.kind = "suggestions"
    /\ index <= Len(search.dropdown.list)
    /\ LET s0 == Handling("suggestion")
           location == s0.suggestions[index]
       IN  SearchStep(emitLocationSelected(
             hideDropdown([s0 EXCEPT !.value = LocationText(location)]), location))

handleFocus ==
  /\ NoneDue
  /\ ~search.destroyed
  /\ ~search.disabled
  /\ LET s0 == Handling("other")
     IN  SearchStep(IF Len(s0.suggestions) > 0 THEN showDropdown(s0) ELSE s0)

handleClickOutside ==
  /\ NoneDue
  /\ ~search.destroyed
  /\ SearchStep(hideDropdown(Handling("other")))

\* A click on the geolocation button.
GeolocationClicked ==
  /\ NoneDue
  /\ ~search.destroyed
  /\ search.geolocation => Locating < MaxLocates
  /\ SearchStep(handleGeolocation(Handling("geolocation")))

PositionResolves ==
  /\ NoneDue
  /\ search.locating > 0
  /\ SearchStep(geolocationPositioned([Handling("geolocation") EXCEPT !.locating = @ - 1]))

PositionRejects ==
  \E cause \in PositionErrors :
    /\ NoneDue
    /\ search.locating > 0
    /\ SearchStep(geolocationCaught([Handling("geolocation") EXCEPT !.locating = @ - 1],
                                    cause))

CoordinateSearchResolves ==
  \E l \in search.lookups, list \in Results :
    /\ NoneDue
    /\ l.by = "geo"
    /\ SearchStep(geolocationResults(Answered(Handling("geolocation"), l), list))

CoordinateSearchRejects ==
  \E l \in search.lookups :
    /\ NoneDue
    /\ l.by = "geo"
    /\ SearchStep(geolocationCaught(Answered(Handling("geolocation"), l), "search"))

Destroy ==
  /\ NoneDue
  /\ ~search.destroyed
  /\ SearchStep(destroy(Handling("other")))

InitSearch ==
  /\ state = NewAppState
  /\ storage = [k \in {} |-> << >>]
  /\ available = TRUE
  /\ hist = NoHist
  /\ subscribers = << >>
  /\ stack = << >>
  /\ tokens = << >>
  /\ unsub = {}
  /\ call = NoCall
  /\ app = NoApp
  /\ \E capable \in BOOLEAN : search = [NoSearch EXCEPT !.geolocation = capable]
  /\ svc = NoService

NextSearch ==
  \/ InputEvent
  \/ Advance
  \/ TimeoutRuns
  \/ SearchResolves
  \/ SearchRejects
  \/ SuggestionClicked
  \/ handleFocus
  \/ handleClickOutside
  \/ GeolocationClicked
  \/ PositionResolves
  \/ PositionRejects
  \/ CoordinateSearchResolves
  \/ CoordinateSearchRejects
  \/ Destroy

SpecSearch == InitSearch /\ [][NextSearch]_vars

(***************************************************************************)
(* What the claims call a stored entry, and when it is well formed.        *)
(***************************************************************************)
\* The value a stored text denotes; undefined for an absent or unparsable entry.
EntryValue(store, k) ==
  IF k \in DOMAIN store /\ Parses(store[k]) THEN JSONparse(store[k]) ELSE Undefined

NonEmptyString(v) == v.t = "str" /\ v.s # ""
WellFormedLocation(v) ==
  v.t = "obj" /\ NonEmptyString(Prop(v, "name")) /\ NonEmptyString(Prop(v, "country"))
WellFormedStore(store) ==
  /\ WellFormedLocation(EntryValue(store, LocationKey))
  /\ EntryValue(store, UnitKey) \in Units
\* The text is exactly what JSON.stringify writes for its value.
Canonical(text) == Parses(text) /\ JSONstringify(JSONparse(text)) = text

(* C1: after any sequence of AppState method calls, isLoading is never true
   while error is non-null; setLoading(true) leaves error null (whatever it
   was) and setError(msg) leaves isLoading false (whatever it was). *)
C1_LoadingExcludesError ==
  /\ ~(state.isLoading /\ state.error # Null)
  /\ (hist.op = "setLoading" /\ hist.arg = Bool(TRUE)) => (state.isLoading /\ state.error = Null)
  /\ hist.op = "setError" => (state.error = hist.arg /\ ~state.isLoading)

C1_Witness ==
  \/ /\ hist.op = "setLoading" /\ hist.arg = Bool(TRUE)
     /\ hist.before.error # Null /\ state.isLoading /\ state.error = Null
  \/ /\ hist.op = "setError" /\ hist.arg # Null
     /\ hist.before.isLoading /\ ~state.isLoading /\ state.error # Null

(* C4: loadFromStorage never throws; it changes currentLocation only when the
   stored location entry is an object with a non-empty name and a non-empty
   country (and then to that object), and temperatureUnit only when the stored
   unit entry is exactly "C" or "F"; an absent, unparsable or malformed entry
   leaves the value held before the call. *)
C4_LoadKeepsGoodValues ==
  hist.op = "loadFromStorage" =>
    /\ ~hist.threw
    /\ state.currentLocation # hist.before.currentLocation =>
         /\ WellFormedLocation(EntryValue(hist.store, LocationKey))
         /\ state.currentLocation = EntryValue(hist.store, LocationKey)
    /\ state.temperatureUnit # hist.before.temperatureUnit =>
         /\ EntryValue(hist.store, UnitKey) \in Units
         /\ state.temperatureUnit = EntryValue(hist.store, UnitKey)
    /\ ~WellFormedLocation(EntryValue(hist.store, LocationKey)) =>
         state.currentLocation = hist.before.currentLocation
    /\ EntryValue(hist.store, UnitKey) \notin Units =>
         state.temperatureUnit = hist.before.temperatureUnit

\* The stored location {name: "", country: "X"} met a location set before, and lost.
C4_Witness ==
  /\ hist.op = "loadFromStorage"
  /\ available
  /\ LocationKey \in DOMAIN hist.store
  /\ hist.store[LocationKey] = JSONstringify(Obj(<< <<"name", Str("")>>, <<"country", Str("X")>> >>))
  /\ hist.before.currentLocation = Paris
  /\ state.currentLocation = Paris

(* C5: with a well-formed location entry and a well-formed unit entry stored,
   loadFromStorage followed at once by saveToStorage leaves both entries
   denoting what they denoted, and leaves their text as it was when that
   text was in the form the adapter writes. *)
C5_LoadSaveRoundTrip ==
  (hist.op = "saveToStorage" /\ hist.afterLoad /\ WellFormedStore(hist.store)) =>
    /\ DOMAIN storage = DOMAIN hist.store
    /\ \A k \in DOMAIN hist.store :
         /\ EntryValue(storage, k) = EntryValue(hist.store, k)
         /\ Canonical(hist.store[k]) => storage[k] = hist.store[k]

\* The round trip ran on a readable store whose entries differ from the defaults
\* the state held, and the save did write.
C5_Witness ==
  /\ hist.op = "saveToStorage" /\ hist.afterLoad /\ WellFormedStore(hist.store)
  /\ available
  /\ Canonical(hist.store[LocationKey]) /\ Canonical(hist.store[UnitKey])
  /\ EntryValue(hist.store, UnitKey) = Str("F")
  /\ hist.before.temperatureUnit = Str("F")
  /\ hist.before.currentLocation = Paris
  /\ storage = hist.store

(* C2: once an unsubscribe function of cb has been called, no notification
   invokes cb (until cb is subscribed again), also when the call is made from
   inside cb's own invocation or by another subscriber in a pass that has not
   reached cb yet: every step that starts a callback starts one that is not
   unsubscribed. *)
C2_NoCallAfterUnsubscribe ==
  [][ (Len(stack') = Len(stack) + 1 /\ stack'[Len(stack')].k = "cb")
        => stack'[Len(stack')].cb \notin unsub' ]_vars

\* A pass that began with a and b registered ended without calling b, which a
\* had unsubscribed on the way.
C2_Witness ==
  /\ call.status = "returned"
  /\ call.regs = {"a", "b"}
  /\ "b" \in call.removed /\ "b" \in unsub
  /\ call.count["a"] = 1
  /\ call.count["b"] = 0

\* The field updates the outermost call made are still in place.
Kept == \A f \in DOMAIN call.upd : state[f] = call.upd[f]

(* C3, as claimed: every call of a mutation method or of loadFromStorage
   returns normally with its field update kept, having invoked every
   subscriber registered at the call exactly once. *)
C3_EverySubscriberExactlyOnce ==
  /\ call.status # "threw"
  /\ call.status = "returned" => (Kept /\ \A cb \in call.regs : call.count[cb] = 1)

(* C3, amended: every such call returns normally, whatever the subscribers
   throw, having invoked at least once every subscriber that was registered at
   the call and was not unsubscribed during it; and when no subscriber called
   back into AppState during the pass, it invoked every subscriber registered
   at the call exactly once and its field update is kept. *)
C3_SubscribersNotifiedDespiteThrows ==
  /\ call.status # "threw"
  /\ call.status = "returned" =>
       /\ \A cb \in call.regs \ call.removed : call.count[cb] >= 1
       /\ call.used = 0 => (Kept /\ \A cb \in call.regs : call.count[cb] = 1)

\* A call returned after a subscriber threw, both subscribers called once.
C3_Witness ==
  /\ call.status = "returned"
  /\ call.threw
  /\ call.used = 0
  /\ call.regs = {"a", "b"}
  /\ \A cb \in call.regs : call.count[cb] = 1
  /\ Kept

(* C6: when a load started by loadWeatherForLocation ends in a fetch        *)
(* failure, the current-conditions panel shows the error message and the    *)
(* forecast panel shows what it showed before that load began.              *)
C6_FailureLeavesForecastPanel ==
  (app.last.ev = "rejected" /\ app.last.load.by = "loadWeatherForLocation") =>
    /\ app.current = ErrorView(app.last.message)
    /\ app.forecast = app.last.load.forecastBefore

(* C7: every failure of a forecast fetch is caught by the controller: the   *)
(* load ends without raising, state.error is the failure message and        *)
(* isLoading is false, the current-conditions panel shows that message, and *)
(* handling the failure makes no new getForecast call.                      *)
C7_FetchFailureIsCaught ==
  app.last.ev = "rejected" =>
    /\ ~app.last.raised
    /\ state.error = Str(app.last.message)
    /\ ~state.isLoading
    /\ app.current = ErrorView(app.last.message)
    /\ app.issued = app.last.issued
    /\ DOMAIN app.fetches \subseteq 1..app.last.issued

\* A refresh of a loaded location fails while another fetch is outstanding.
C7_Witness ==
  /\ app.last.ev = "rejected"
  /\ app.last.load.by = "loadWeatherForLocation"
  /\ app.last.before.isLoading
  /\ app.last.before.weatherData # Null
  /\ app.last.outstanding = 2
  /\ state.error = Str("Failed to fetch forecast for \"Paris\": Request timed out")

(* C8: a tick of the auto-refresh timer starts a fetch only if a location   *)
(* is selected and no forecast fetch is outstanding.                        *)
C8_TickStartsNoOverlappingFetch ==
  (app.last.ev = "tick" /\ app.last.started) =>
    /\ Truthy(app.last.before.currentLocation)
    /\ app.last.outstanding = 0

(* C9: while the component lives, a search call is made for the query of    *)
(* an input event exactly when its trimmed length is at least 2 and no      *)
(* further input event occurs in the 300 ms after it, and the call is made  *)
(* once, with the trimmed text; at most one call is pending at any time.    *)
C9_DebouncedSearch ==
  ~search.destroyed =>
    /\ Cardinality(search.timeouts) <= 1
    /\ \A i \in DOMAIN search.inputs :
         LET event == search.inputs[i]
             query == trim(event.text)
         IN  /\ event.age < DEBOUNCE_MS => event.calls = << >>
             /\ (event.age = DEBOUNCE_MS /\ NoneDue) =>
                  event.calls = IF Len(query) >= 2 /\ ~event.superseded
                                THEN <<query>>
                                ELSE << >>

\* The burst: "Lon", then "Lond" within 300 ms, then 300 ms without input.
C9_Witness ==
  /\ ~search.destroyed
  /\ Len(search.inputs) = 2
  /\ search.inputs[1].text = <<"L", "o", "n">>
  /\ search.inputs[1].superseded
  /\ search.inputs[1].calls = << >>
  /\ search.inputs[2].text = <<"L", "o", "n", "d">>
  /\ search.inputs[2].age = DEBOUNCE_MS
  /\ search.inputs[2].calls = << <<"L", "o", "n", "d">> >>
  /\ search.timeouts = {}

(* C10: every failed geolocation lookup shows an inline message in the      *)
(* dropdown, leaves the text of the search input empty and emits no         *)
(* locationSelected event.                                                  *)
C10_FailedLookupClearsInput ==
  (search.last.ev = "geolocation" /\ search.last.outcome = "failed") =>
    /\ search.shown
    /\ search.dropdown.kind = "error"
    /\ search.value = << >>
    /\ search.last.emitted = Null

(***************************************************************************)
(* The classes of failure and the operation contexts, as the claims name   *)
(* them.                                                                   *)
(***************************************************************************)
FailureClass(outcome) ==
  IF outcome.t = "AxiosError" /\ outcome.response # Undefined
  THEN CASE outcome.response.status = 400 -> "Invalid request"
         [] outcome.response.status \in {401, 403} -> "Authentication failed"
         [] outcome.response.status = 404 -> "Location not found"
         [] OTHER -> "API error (" \o Decimal(outcome.response.status) \o ")"
  ELSE IF outcome.t = "AxiosError" /\ outcome.code = "ECONNABORTED" THEN "Request timed out"
  ELSE IF outcome.t = "AxiosError" THEN "Network error"
  ELSE "Unexpected error"

OperationContext(op) ==
  CASE op = "getCurrentWeather" -> "Failed to fetch current weather for "
    [] op = "getForecast" -> "Failed to fetch forecast for "
    [] op = "searchLocations" -> "Failed to search locations for "

\* What may follow the class in a message: nothing, or a dash and a detail.
FailureDetails ==
  {""} \cup
  { Dash \o detail :
      detail \in {"check your API key", "No matching location found.", String(UndefinedRead),
                  String(TypeError("response.data.map is not a function")),
                  String(TypeError("Invalid URL"))}
                 \cup {r.message : r \in Rejections} }

(* C11: every failure of getCurrentWeather, getForecast or searchLocations  *)
(* is thrown to the caller, as one error whose message is the operation     *)
(* context with the original query in quotes, then the class the transport  *)
(* outcome determines (400 invalid request, 401/403 authentication failed,  *)
(* 404 location not found, other status API error with the status, timeout  *)
(* code timed out, other transport failure network error, anything else     *)
(* unexpected error).                                                       *)
C11_FailuresAreClassified ==
  svc.phase = "settled" =>
    /\ svc.outcome.t # "response" => ~svc.result.ok
    /\ ~svc.result.ok =>
         \E detail \in FailureDetails :
           svc.result.message =
             OperationContext(svc.op) \o "\"" \o svc.query \o "\": "
               \o FailureClass(svc.outcome) \o detail

\* A coordinate search answered with status 429 and a provider message.
C11_Witness ==
  /\ svc.phase = "settled"
  /\ svc.op = "searchLocations"
  /\ svc.outcome.t = "AxiosError"
  /\ ~svc.result.ok
  /\ svc.result.message =
       "Failed to search locations for \"48.8566,2.3522\": API error (429) - No matching location found."

\* The days a payload carries: those of its forecast section, if it has one.
ProviderDays(data) ==
  IF "forecast" \in DOMAIN data /\ "forecastday" \in DOMAIN data.forecast
  THEN data.forecast.forecastday
  ELSE << >>

(* C14: for every provider payload that is transformed, each numeric field  *)
(* (location lat, lon; current temp_c, humidity, wind_kph, pressure_mb,     *)
(* vis_km, uv; per day maxtemp_c, mintemp_c, avghumidity, maxwind_kph) is   *)
(* copied unchanged, and the forecast has one entry per provider day, in    *)
(* the provider's order, none when the payload has no forecast section.     *)
C14_TransformationKeepsNumbers ==
  (svc.phase = "settled" /\ svc.op # "searchLocations" /\ svc.result.ok) =>
    LET data == svc.outcome.data
        value == svc.result.value
        days == ProviderDays(data)
    IN  /\ value.location.lat = data.location.lat
        /\ value.location.lon = data.location.lon
        /\ value.current.temperature = data.current.temp_c
        /\ value.current.humidity = data.current.humidity
        /\ value.current.windSpeed = data.current.wind_kph
        /\ value.current.pressure = data.current.pressure_mb
        /\ value.current.visibility = data.current.vis_km
        /\ value.current.uvIndex = data.current.uv
        /\ Len(value.forecast) = Len(days)
        /\ \A i \in 1..Len(days) :
             /\ value.forecast[i].date = days[i].date
             /\ value.forecast[i].maxTemp = days[i].day.maxtemp_c
             /\ value.forecast[i].minTemp = days[i].day.mintemp_c
             /\ value.forecast[i].humidity = days[i].day.avghumidity
             /\ value.forecast[i].windSpeed = days[i].day.maxwind_kph

\* A forecast of three days, the last two alike but for the date.
C14_Witness ==
  /\ svc.phase = "settled"
  /\ svc.op = "getForecast"
  /\ svc.result.ok
  /\ Len(svc.result.value.forecast) = 3
  /\ svc.result.value.forecast[1].maxTemp = 22
  /\ svc.result.value.forecast[3].date = "2024-05-03"

\* The step is a call of an unsubscribe function of cb that was called before.
SpentTokenCalled(cb) ==
  /\ "spent" \in tokens[cb]
  /\ tokens' = tokens
  /\ stack' = stack
  /\ cb \in unsub'
  /\ Live(subscribers') = Live(subscribers) \ {cb}

(* C12: calling an unsubscribe function a second or later time leaves the   *)
(* set of registered subscribers unchanged, also when its callback has been *)
(* registered again since the first call.                                   *)
C12_SecondUnsubscribeIsNoOp ==
  [][ \A cb \in Callbacks :
        SpentTokenCalled(cb) => Live(subscribers') = Live(subscribers) ]_vars

(* C13: a subscriber that mutates the state from inside its callback does   *)
(* not make notification recurse without bound: the passes never nest as    *)
(* deep as the engine's call stack allows.                                  *)
C13_RecursionIsBounded == NotifyDepth(stack) < StackLimit

\* A whole number nearest to the quotient num / den (den > 0).
Nearest(r, num, den) == 2 * num - den <= 2 * den * r /\ 2 * den * r <= 2 * num + den
Degrees == (0 - Cold)..Warm

\* C15: with data shown, the current-conditions panel displays the stored
\* Celsius value rounded in C mode and that value * 9 / 5 + 32 rounded in F
\* mode; two clicks of the unit button in a row bring back the text shown
\* before them, and no click changes the stored data.
C15_DoubleToggleRestoresDisplay ==
  /\ app.current.kind = "data" =>
        /\ app.current.data = app.cwData
        /\ app.current.unit = app.cwUnit
        /\ LET tenths == app.cwData.current.temperature
           IN  \E r \in Degrees :
                 /\ app.current.temp = NumberText(r)
                 /\ IF app.cwUnit = Str("F")
                    THEN Nearest(r, 9 * tenths + 1600, 50)
                    ELSE Nearest(r, tenths, 10)
  /\ app.last.ev = "unitToggle" =>
        /\ app.cwData = app.last.data
        /\ app.last.earlier # << >> =>
              /\ app.current.temp = app.last.earlier[1].shown
              /\ app.cwData = app.last.earlier[1].data

\* 20 degrees displayed as 20, then 68, then 20 again.
C15_Witness ==
  /\ app.last.ev = "unitToggle"
  /\ app.last.earlier # << >>
  /\ app.cwData.current.temperature = 200
  /\ app.last.earlier[1].shown = "20"
  /\ app.last.shown = "68"
  /\ app.current.temp = "20"
  /\ app.cwUnit = Str("C")
\* C16: a load that starts while fetches are outstanding leaves them all
\* outstanding, and every fetch that resolves puts its own data into
\* state.weatherData and both panels, whichever request was made last: the
\* fetch that resolves last wins.
C16_LastResolutionWins ==
  /\ (app.last.ev \in {"locationSelected", "tick", "online"} /\ app.last.started) =>
        /\ Cardinality(DOMAIN app.fetches) = app.last.outstanding + 1
        /\ app.issued = app.last.issued + 1
  /\ app.last.ev = "resolved" =>
        LET data == WeatherData(app.last.load.city, app.last.fetch)
        IN  /\ state.weatherData = data
            /\ app.current.kind = "data"
            /\ app.current.data = data
            /\ app.forecast.kind = "data"
            /\ app.forecast.data = Forecast(data)
            /\ Cardinality(DOMAIN app.fetches) = app.last.outstanding - 1

\* Paris is loaded at startup, London is selected while that fetch is
\* outstanding, London's fetch resolves first and Paris's last.
C16_Witness ==
  /\ app.last.ev = "resolved"
  /\ app.last.fetch = 1
  /\ app.last.outstanding = 1
  /\ app.issued = 2
  /\ app.last.before.weatherData = WeatherData("London", 2)
  /\ Prop(state.currentLocation, "name") = Str("London")
  /\ state.weatherData = WeatherData("Paris", 1)
  /\ app.current.data = WeatherData("Paris", 1)
  /\ app.forecast.data = Forecast(WeatherData("Paris", 1))
\* C17: whenever a panel shows data, it shows it in state.temperatureUnit,
\* so the two panels and the state agree on the unit.
C17_UnitsAgree ==
  /\ app.current.kind = "data" => app.current.unit = state.temperatureUnit
  /\ app.forecast.kind = "data" => app.forecast.unit = state.temperatureUnit
\* C18: with no fetch outstanding, no error and weather data held, the data
\* is that of the location selected: state.weatherData was fetched for
\* state.currentLocation.
C18_WeatherBelongsToLocation ==
  (DOMAIN app.fetches = {} /\ state.error = Null /\ state.weatherData # Null) =>
    /\ Truthy(state.currentLocation)
    /\ Prop(state.currentLocation, "name") = Str(state.weatherData.city)
\* The location entry of the store was written: it is there and differs from
\* what was there.
LocationWritten ==
  /\ LocationKey \in DOMAIN storage'
  /\ LocationKey \in DOMAIN storage => storage'[LocationKey] # storage[LocationKey]

\* The locations the controller can hold: a suggestion selected, or the one
\* built from the data of the default city.
HeldLocations == Locations \cup { DataLocation(WeatherData(Prop(l, "name").s, 0)) : l \in Locations }

\* C19: a location is written to the store only once a forecast fetch for it
\* has succeeded, never while its fetch is outstanding or after it failed.
C19_PersistedLocationWasLoaded ==
  [][ LocationWritten =>
        \E l \in HeldLocations :
          /\ storage'[LocationKey] = JSONstringify(l)
          /\ Prop(l, "name").s \in app'.loaded ]_vars
====
